---- MODULE Spec2Model ----
(***************************************************************************)
(* PolyAI frontend (polyai/frontend/app.js): the summarize handler, the    *)
(* backend call with its local fallback, and the local agent pipeline      *)
(* (input processor, reasoning, verification, simplification, critique,    *)
(* refiner).                                                               *)
(*                                                                         *)
(* A JavaScript string is a sequence of one-character strings, so that the *)
(* regular expressions and string methods of the source are computed       *)
(* character by character.                                                 *)
(***************************************************************************)
EXTENDS Integers, Sequences, FiniteSets, TLC

VARIABLES
    inputText,     \* value of the #inputText textarea
    isProcessing,  \* state.isProcessing
    debugMode,     \* state.debugMode
    reqs,          \* the handleSummarize invocations that passed the gates, in order
    output,        \* what #outputContent shows
    toast,         \* the message of the last showToast
    args,          \* arguments of a direct call of one pipeline function
    result         \* what that call returned

vars == <<inputText, isProcessing, debugMode, reqs, output, toast, args, result>>

uiVars == <<inputText, isProcessing, debugMode, reqs, output, toast>>

(***************************************************************************)
(* Characters and the string methods the source uses.                      *)
(***************************************************************************)
LowerLetters ==
    <<"a","b","c","d","e","f","g","h","i","j","k","l","m",
      "n","o","p","q","r","s","t","u","v","w","x","y","z">>

UpperLetters ==
    <<"A","B","C","D","E","F","G","H","I","J","K","L","M",
      "N","O","P","Q","R","S","T","U","V","W","X","Y","Z">>

Range(s) == {s[i] : i \in 1..Len(s)}

LowerSet == Range(LowerLetters)

UpperSet == Range(UpperLetters)

DigitSet == {"0","1","2","3","4","5","6","7","8","9"}

\* \s of a regular expression, and what trim() strips
Whitespace == {" ", "\n", "\t"}

\* \w of a regular expression
WordChars == LowerSet \cup UpperSet \cup DigitSet \cup {"_"}

LowerOf == [c \in UpperSet |-> LowerLetters[CHOOSE k \in 1..Len(UpperLetters) : UpperLetters[k] = c]]

UpperOf == [c \in LowerSet |-> UpperLetters[CHOOSE k \in 1..Len(LowerLetters) : LowerLetters[k] = c]]

toLowerCase(s) == [i \in 1..Len(s) |-> IF s[i] \in UpperSet THEN LowerOf[s[i]] ELSE s[i]]

toUpperCase(s) == [i \in 1..Len(s) |-> IF s[i] \in LowerSet THEN UpperOf[s[i]] ELSE s[i]]

\* s.slice(from) with from counted from 0
slice(s, from) == SubSeq(s, from + 1, Len(s))

\* s.charAt(i): the empty string when i is past the end
charAt(s, i) == IF i + 1 <= Len(s) THEN <<s[i + 1]>> ELSE <<>>

endsWith(s, c) == Len(s) > 0 /\ s[Len(s)] = c

\* sub occurs in s at (1-based) position i
matchesAt(s, sub, i) ==
    /\ i + Len(sub) - 1 <= Len(s)
    /\ \A k \in 1..Len(sub) : s[i + k - 1] = sub[k]

\* s.includes(sub)
includes(s, sub) == \E i \in 1..(Len(s) - Len(sub) + 1) : SubSeq(s, i, i + Len(sub) - 1) = sub

\* 1, 2, ..., n
indices(n) == [i \in 1..n |-> i]

\* the characters of s at the positions where keep holds, in order
keepWhere(s, keep) ==
    LET kept == SelectSeq(indices(Len(s)), LAMBDA i : keep[i])
    IN  [r \in 1..Len(kept) |-> s[kept[r]]]

\* s.trim()
trim(s) ==
    LET inner == SelectSeq(indices(Len(s)), LAMBDA i : s[i] \notin Whitespace)
    IN  IF Len(inner) = 0 THEN <<>> ELSE SubSeq(s, inner[1], inner[Len(inner)])

\* the first and the last position of every maximal whitespace run, in order
whitespaceRunStarts(s) ==
    SelectSeq(indices(Len(s)), LAMBDA i : s[i] \in Whitespace /\ (i = 1 \/ s[i - 1] \notin Whitespace))

whitespaceRunEnds(s) ==
    SelectSeq(indices(Len(s)), LAMBDA i : s[i] \in Whitespace /\ (i = Len(s) \/ s[i + 1] \notin Whitespace))

\* s.replace(/\s+/g, ' ')
collapseWhitespace(s) ==
    LET keep == [i \in 1..Len(s) |-> s[i] \notin Whitespace \/ i = 1 \/ s[i - 1] \notin Whitespace]
        kept == keepWhere(s, keep)
    IN  [i \in 1..Len(kept) |-> IF kept[i] \in Whitespace THEN " " ELSE kept[i]]

\* the pieces of s between the separators starts[k]..ends[k]: one more piece
\* than separators, empty pieces included, as String.prototype.split has it
splitAt(s, starts, ends) ==
    [k \in 1..(Len(starts) + 1) |->
        SubSeq(s, IF k = 1 THEN 1 ELSE ends[k - 1] + 1,
                  IF k = Len(starts) + 1 THEN Len(s) ELSE starts[k] - 1)]

\* s.split(/\s+/)
splitWhitespace(s) == splitAt(s, whitespaceRunStarts(s), whitespaceRunEnds(s))

\* pieces.join(' ')
RECURSIVE join(_)
join(pieces) ==
    IF Len(pieces) = 0 THEN <<>>
    ELSE IF Len(pieces) = 1 THEN pieces[1]
    ELSE pieces[1] \o <<" ">> \o join(Tail(pieces))

nonEmpty(w) == Len(w) > 0

countWords(text) ==
    IF Len(trim(text)) = 0 THEN 0
    ELSE Len(SelectSeq(splitWhitespace(trim(text)), nonEmpty))

(***************************************************************************)
(* Input processor.                                                        *)
(***************************************************************************)
\* sub occurs in s at position i, letter case ignored (the i flag)
matchesAtIgnoringCase(s, sub, i) ==
    /\ i + Len(sub) - 1 <= Len(s)
    /\ \A k \in 1..Len(sub) :
          (IF s[i + k - 1] \in UpperSet THEN LowerOf[s[i + k - 1]] ELSE s[i + k - 1]) = sub[k]

\* the first position from i on that holds a character outside the class, or
\* Len(s) + 1
runEnd(s, class, i) ==
    LET stops == SelectSeq(SubSeq(indices(Len(s)), i, Len(s)), LAMBDA j : s[j] \notin class)
    IN  IF Len(stops) = 0 THEN Len(s) + 1 ELSE stops[1]

\* the first position from i on that holds whitespace, or Len(s) + 1
nonSpaceEnd(s, i) ==
    LET stops == SelectSeq(SubSeq(indices(Len(s)), i, Len(s)), LAMBDA j : s[j] \in Whitespace)
    IN  IF Len(stops) = 0 THEN Len(s) + 1 ELSE stops[1]

HttpScheme == <<"h","t","t","p",":","/","/">>

HttpsScheme == <<"h","t","t","p","s",":","/","/">>

\* /https?:\/\/[^\s]+/i matches at i: the position after the match, or 0
urlEnd(s, i) ==
    LET after(scheme) == i + Len(scheme)
        hit(scheme) == /\ matchesAtIgnoringCase(s, scheme, i)
                       /\ after(scheme) <= Len(s)
                       /\ s[after(scheme)] \notin Whitespace
    IN  IF hit(HttpsScheme) THEN nonSpaceEnd(s, after(HttpsScheme))
        ELSE IF hit(HttpScheme) THEN nonSpaceEnd(s, after(HttpScheme))
        ELSE 0

\* s.replace(/https?:\/\/[^\s]+/gi, ''): a match runs to the end of its
\* whitespace-free run, so a match that begins inside another ends with it
removeUrls(s) ==
    LET starts == SelectSeq(indices(Len(s)), LAMBDA i : urlEnd(s, i) > 0)
        removed == UNION {starts[k]..(urlEnd(s, starts[k]) - 1) : k \in 1..Len(starts)}
    IN  keepWhere(s, [i \in 1..Len(s) |-> i \notin removed])

\* [\w.-]
EmailChars == WordChars \cup {".", "-"}

\* /[\w.-]+@[\w.-]+\.\w+/ matches at i: the position after the match, or 0.
\* The local part is the whole run of [\w.-] up to the @; the domain run is
\* cut at its last dot that a \w follows, and \w+ takes the run after it.
emailEnd(s, i) ==
    LET at == runEnd(s, EmailChars, i)
        domainEnd == runEnd(s, EmailChars, at + 1)
        dots == SelectSeq(SubSeq(indices(Len(s)), at + 2, domainEnd - 2),
                          LAMBDA d : s[d] = "." /\ s[d + 1] \in WordChars)
    IN  IF at > i /\ at <= Len(s) /\ s[at] = "@" /\ Len(dots) > 0
        THEN runEnd(s, WordChars, dots[Len(dots)] + 1)
        ELSE 0

\* the text from position i on with the matches cut out, starts being the
\* positions from i on where the expression matches; the search resumes
\* behind each match
RECURSIVE cutEmails(_, _, _)
cutEmails(s, starts, i) ==
    LET next == SelectSeq(starts, LAMBDA j : j >= i)
    IN  IF Len(next) = 0 THEN SubSeq(s, i, Len(s))
        ELSE SubSeq(s, i, next[1] - 1) \o cutEmails(s, starts, emailEnd(s, next[1]))

\* s.replace(/[\w.-]+@[\w.-]+\.\w+/gi, '')
removeEmails(s) ==
    IF \A i \in 1..Len(s) : s[i] # "@" THEN s
    ELSE cutEmails(s, SelectSeq(indices(Len(s)), LAMBDA i : emailEnd(s, i) > 0), 1)

\* the characters of the lookbehind (?<=[.!?])
SentenceEnders == {".", "!", "?"}

\* s.split(/(?<=[.!?])\s+/): cut at each whitespace run that follows . ! or ?
splitSentences(s) ==
    LET starts == whitespaceRunStarts(s)
        ends == whitespaceRunEnds(s)
        cuts == SelectSeq(indices(Len(starts)),
                          LAMBDA k : starts[k] > 1 /\ s[starts[k] - 1] \in SentenceEnders)
    IN  splitAt(s, [r \in 1..Len(cuts) |-> starts[cuts[r]]], [r \in 1..Len(cuts) |-> ends[cuts[r]]])

\* the s.length > 10 of the sentence filter
MinSentenceLength == 10

isSentence(s) == Len(s) > MinSentenceLength

normalizeText(text) == removeEmails(removeUrls(trim(collapseWhitespace(text))))

processInput(text) ==
    [ original |-> text,
      normalized |-> normalizeText(text),
      sentences |-> SelectSeq(splitSentences(normalizeText(text)), isSentence),
      wordCount |-> countWords(normalizeText(text)) ]

(***************************************************************************)
(* Reasoning agent.  Of its result the model keeps summary and keyPoints   *)
(* (confidence is the constant 0.75, which nothing reads).                 *)
(***************************************************************************)
\* key, important, main, essential, critical, significant, primary, focus,
\* because, therefore, thus, result
keyIndicators ==
    <<
      <<"k","e","y">>,
      <<"i","m","p","o","r","t","a","n","t">>,
      <<"m","a","i","n">>,
      <<"e","s","s","e","n","t","i","a","l">>,
      <<"c","r","i","t","i","c","a","l">>,
      <<"s","i","g","n","i","f","i","c","a","n","t">>,
      <<"p","r","i","m","a","r","y">>,
      <<"f","o","c","u","s">>,
      <<"b","e","c","a","u","s","e">>,
      <<"t","h","e","r","e","f","o","r","e">>,
      <<"t","h","u","s">>,
      <<"r","e","s","u","l","t">> >>

Max(a, b) == IF a >= b THEN a ELSE b

Min(a, b) == IF a <= b THEN a ELSE b

\* the number of keyIndicators that occur in the sentence
indicatorHits(sentence) ==
    LET lowerSentence == toLowerCase(sentence)
    IN  Cardinality({k \in 1..Len(keyIndicators) : includes(lowerSentence, keyIndicators[k])})

positionWeight(index, n) ==
    (IF index < 2 THEN 3 ELSE 0) + (IF index = n - 1 THEN 2 ELSE 0)

lengthWeight(sentence) ==
    LET wordCount == countWords(sentence)
    IN  IF wordCount >= 10 /\ wordCount <= 30 THEN 1 ELSE 0

\* the score of the sentence at (0-based) index of n sentences
sentenceScore(sentence, index, n) ==
    positionWeight(index, n) + 2 * indicatorHits(sentence) + lengthWeight(sentence)

\* sentences.map((sentence, index) => ({ sentence, score, index }))
scoreSentences(sentences) ==
    [i \in 1..Len(sentences) |->
        [sentence |-> sentences[i],
         score |-> sentenceScore(sentences[i], i - 1, Len(sentences)),
         index |-> i - 1]]

\* Array.prototype.sort with a comparator is stable: an item goes behind
\* every item already placed whose key is not greater than its own
RECURSIVE insertSorted(_, _)
insertSorted(sorted, entry) ==
    IF Len(sorted) = 0 THEN <<entry>>
    ELSE IF sorted[Len(sorted)].key <= entry.key THEN Append(sorted, entry)
    ELSE Append(insertSorted(SubSeq(sorted, 1, Len(sorted) - 1), entry), sorted[Len(sorted)])

RECURSIVE sortEntries(_)
sortEntries(entries) ==
    IF Len(entries) = 0 THEN <<>>
    ELSE insertSorted(sortEntries(SubSeq(entries, 1, Len(entries) - 1)), entries[Len(entries)])

\* items sorted by ascending keys[i], the key of items[i]
sortByKeys(items, keys) ==
    LET sorted == sortEntries([i \in 1..Len(items) |-> [key |-> keys[i], item |-> items[i]]])
    IN  [i \in 1..Len(items) |-> sorted[i].item]

\* scored.sort((a, b) => b.score - a.score)
sortByScoreDescending(items) == sortByKeys(items, [i \in 1..Len(items) |-> 0 - items[i].score])

\* .sort((a, b) => a.index - b.index)
sortByIndex(items) == sortByKeys(items, [i \in 1..Len(items) |-> items[i].index])

\* Math.floor in place of Math.ceil
selectionCountFloor(n) == Max(3, (3 * n) \div 10)

\* Math.max(3, Math.ceil(n * 0.3)); the double n * 0.3 has the ceiling of
\* 3n/10 for every n below 100000
selectionCount(n) == Max(3, (3 * n + 9) \div 10)

\* items.slice(0, end)
sliceTo(items, end) == SubSeq(items, 1, Min(end, Len(items)))

\* the selection left in score order
topItemsInScoreOrder(sentences) ==
    sliceTo(sortByScoreDescending(scoreSentences(sentences)), selectionCount(Len(sentences)))

\* the items of topSentences before .map(item => item.sentence)
topItems(sentences) ==
    sortByIndex(sliceTo(sortByScoreDescending(scoreSentences(sentences)),
                        selectionCount(Len(sentences))))

\* the result built from the items of topSentences
reasoningResultOf(top) ==
    LET topSentences == [i \in 1..Len(top) |-> top[i].sentence]
    IN  [summary |-> join(topSentences), keyPoints |-> Len(topSentences)]

runReasoningAgent(processed) == reasoningResultOf(topItems(processed.sentences))

(***************************************************************************)
(* Verification agent.  coverage is a quotient of two word counts; the     *)
(* model keeps it as the fraction num/den (confidence), and compares and   *)
(* rounds it exactly.                                                      *)
(***************************************************************************)
\* the w.length > 4 of significantWords
SignificantLength == 4

isSignificant(w) == Len(w) > SignificantLength

significantWords(summary) == SelectSeq(splitWhitespace(toLowerCase(summary)), isSignificant)

matchedCount(normalized, words) ==
    Cardinality({i \in 1..Len(words) : includes(toLowerCase(normalized), words[i])})

\* coverage as a fraction; 0 when there are no significant words
rawCoverage(processed, reasoningResult) ==
    LET words == significantWords(reasoningResult.summary)
    IN  IF Len(words) > 0
        THEN [num |-> matchedCount(processed.normalized, words), den |-> Len(words)]
        ELSE [num |-> 0, den |-> 1]

\* Math.round(100 * num / den) for num >= 0, den > 0
roundPercent(num, den) == (200 * num + den) \div (2 * den)

\* coverage >= 0.7
passesThresholdInclusive(coverage) == 10 * coverage.num >= 7 * coverage.den

\* coverage > 0.7
passesThreshold(coverage) == 10 * coverage.num > 7 * coverage.den

\* coverage < 0.7
belowThreshold(coverage) == 10 * coverage.num < 7 * coverage.den

runVerificationAgent(processed, reasoningResult) ==
    LET coverage == rawCoverage(processed, reasoningResult)
    IN  [ verified |-> passesThreshold(coverage),
          coverage |-> roundPercent(coverage.num, coverage.den),
          issues |-> IF belowThreshold(coverage)
                     THEN <<"Some claims may not be directly from source">>
                     ELSE <<>>,
          confidence |-> coverage ]

(***************************************************************************)
(* Simplification agent.  Of its result the model keeps summary and        *)
(* readabilityImproved (avgWordLength is a formatted double and confidence *)
(* the constant 0.8; nothing reads them).                                  *)
(***************************************************************************)
\* utilize -> use, implement -> set up, facilitate -> help, demonstrate ->
\* show, significant -> important, approximately -> about, subsequently ->
\* then, consequently -> so, nevertheless -> but, furthermore -> also
replacements ==
    <<
      [complex |-> <<"u","t","i","l","i","z","e">>,
       simple |-> <<"u","s","e">>],
      [complex |-> <<"i","m","p","l","e","m","e","n","t">>,
       simple |-> <<"s","e","t"," ","u","p">>],
      [complex |-> <<"f","a","c","i","l","i","t","a","t","e">>,
       simple |-> <<"h","e","l","p">>],
      [complex |-> <<"d","e","m","o","n","s","t","r","a","t","e">>,
       simple |-> <<"s","h","o","w">>],
      [complex |-> <<"s","i","g","n","i","f","i","c","a","n","t">>,
       simple |-> <<"i","m","p","o","r","t","a","n","t">>],
      [complex |-> <<"a","p","p","r","o","x","i","m","a","t","e","l","y">>,
       simple |-> <<"a","b","o","u","t">>],
      [complex |-> <<"s","u","b","s","e","q","u","e","n","t","l","y">>,
       simple |-> <<"t","h","e","n">>],
      [complex |-> <<"c","o","n","s","e","q","u","e","n","t","l","y">>,
       simple |-> <<"s","o">>],
      [complex |-> <<"n","e","v","e","r","t","h","e","l","e","s","s">>,
       simple |-> <<"b","u","t">>],
      [complex |-> <<"f","u","r","t","h","e","r","m","o","r","e">>,
       simple |-> <<"a","l","s","o">>] >>

\* the text from position i on with each match replaced, starts being the
\* positions where the pattern matches; the search resumes behind each match
RECURSIVE replaceMatches(_, _, _, _, _)
replaceMatches(s, starts, width, replacement, i) ==
    LET next == SelectSeq(starts, LAMBDA j : j >= i)
    IN  IF Len(next) = 0 THEN SubSeq(s, i, Len(s))
        ELSE SubSeq(s, i, next[1] - 1) \o replacement
                \o replaceMatches(s, starts, width, replacement, next[1] + width)

\* s.replace(new RegExp(pattern, 'gi'), replacement)
replaceAll(s, pattern, replacement) ==
    replaceMatches(s, SelectSeq(indices(Len(s)), LAMBDA i : matchesAtIgnoringCase(s, pattern, i)),
                   Len(pattern), replacement, 1)

\* the first k replacements applied in turn
RECURSIVE applyReplacements(_, _)
applyReplacements(s, k) ==
    IF k = 0 THEN s
    ELSE replaceAll(applyReplacements(s, k - 1), replacements[k].complex, replacements[k].simple)

RECURSIVE sumLengths(_)
sumLengths(words) == IF Len(words) = 0 THEN 0 ELSE Len(words[1]) + sumLengths(Tail(words))

\* the average as the fraction total/count, 0 when there are no words
averageWordLength(text) ==
    LET words == SelectSeq(splitWhitespace(text), nonEmpty)
    IN  IF Len(words) = 0 THEN [total |-> 0, count |-> 1]
        ELSE [total |-> sumLengths(words), count |-> Len(words)]

runSimplificationAgent(processed, reasoningResult) ==
    LET simplified == applyReplacements(reasoningResult.summary, Len(replacements))
        originalWordLength == averageWordLength(reasoningResult.summary)
        simplifiedWordLength == averageWordLength(simplified)
    IN  [ summary |-> simplified,
          readabilityImproved |->
              simplifiedWordLength.total * originalWordLength.count
                  < originalWordLength.total * simplifiedWordLength.count ]

(***************************************************************************)
(* Critique agent.  The ratio 1 - summaryWordCount / originalWordCount is  *)
(* kept as a fraction and compared and rounded exactly; with a zero        *)
(* divisor JavaScript yields NaN (0/0) or -Infinity (1 - n/0), which       *)
(* Math.round returns unchanged.  confidence, the constant 0.7, is left    *)
(* out.                                                                    *)
(***************************************************************************)
stopWords ==
    {
      <<"t","h","e">>, <<"a">>, <<"a","n">>, <<"i","s">>, <<"a","r","e">>,
      <<"w","a","s">>, <<"w","e","r","e">>, <<"b","e">>, <<"b","e","e","n">>,
      <<"b","e","i","n","g">>, <<"h","a","v","e">>, <<"h","a","s">>, <<"h","a","d">>,
      <<"d","o">>, <<"d","o","e","s">>, <<"d","i","d">>, <<"w","i","l","l">>,
      <<"w","o","u","l","d">>, <<"c","o","u","l","d">>, <<"s","h","o","u","l","d">>,
      <<"m","a","y">>, <<"m","i","g","h","t">>, <<"m","u","s","t">>,
      <<"s","h","a","l","l">>, <<"c","a","n">>, <<"n","e","e","d">>,
      <<"d","a","r","e">>, <<"o","u","g","h","t">>, <<"u","s","e","d">>, <<"t","o">>,
      <<"o","f">>, <<"i","n">>, <<"f","o","r">>, <<"o","n">>, <<"w","i","t","h">>,
      <<"a","t">>, <<"b","y">>, <<"f","r","o","m">>, <<"a","s">>, <<"i","n","t","o">>,
      <<"t","h","r","o","u","g","h">>, <<"d","u","r","i","n","g">>,
      <<"b","e","f","o","r","e">>, <<"a","f","t","e","r">>, <<"a","b","o","v","e">>,
      <<"b","e","l","o","w">>, <<"b","e","t","w","e","e","n">>,
      <<"u","n","d","e","r">>, <<"a","g","a","i","n">>,
      <<"f","u","r","t","h","e","r">>, <<"t","h","e","n">>, <<"o","n","c","e">>,
      <<"h","e","r","e">>, <<"t","h","e","r","e">>, <<"w","h","e","n">>,
      <<"w","h","e","r","e">>, <<"w","h","y">>, <<"h","o","w">>, <<"a","l","l">>,
      <<"e","a","c","h">>, <<"f","e","w">>, <<"m","o","r","e">>, <<"m","o","s","t">>,
      <<"o","t","h","e","r">>, <<"s","o","m","e">>, <<"s","u","c","h">>, <<"n","o">>,
      <<"n","o","r">>, <<"n","o","t">>, <<"o","n","l","y">>, <<"o","w","n">>,
      <<"s","a","m","e">>, <<"s","o">>, <<"t","h","a","n">>, <<"t","o","o">>,
      <<"v","e","r","y">>, <<"j","u","s","t">>, <<"a","n","d">>, <<"b","u","t">>,
      <<"i","f">>, <<"o","r">>, <<"b","e","c","a","u","s","e">>,
      <<"u","n","t","i","l">>, <<"w","h","i","l","e">>, <<"t","h","i","s">>,
      <<"t","h","a","t">>, <<"t","h","e","s","e">>, <<"t","h","o","s","e">>,
      <<"i","t">>, <<"i","t","s">> }

\* word.replace(/[^a-z]/g, '')
keepLetters(word) == SelectSeq(word, LAMBDA c : c \in LowerSet)

\* the counted words in the order they were first seen, with their counts
RECURSIVE countTerms(_, _)
countTerms(words, k) ==
    IF k = 0 THEN <<>>
    ELSE LET before == countTerms(words, k - 1)
             cleaned == keepLetters(words[k])
             seen == {i \in 1..Len(before) : before[i].word = cleaned}
         IN  IF Len(cleaned) > 4 /\ cleaned \notin stopWords
             THEN IF seen = {}
                  THEN Append(before, [word |-> cleaned, count |-> 1])
                  ELSE [i \in 1..Len(before) |->
                           IF i \in seen
                           THEN [word |-> cleaned, count |-> before[i].count + 1]
                           ELSE before[i]]
             ELSE before

repeated(entry) == entry.count >= 2

extractImportantTerms(text) ==
    LET words == splitWhitespace(toLowerCase(text))
        frequent == SelectSeq(countTerms(words, Len(words)), repeated)
        ranked == sliceTo(sortByKeys(frequent, [i \in 1..Len(frequent) |-> 0 - frequent[i].count]), 10)
    IN  [i \in 1..Len(ranked) |-> ranked[i].word]

NaN == [kind |-> "NaN"]

NegativeInfinity == [kind |-> "-Infinity"]

Number(n) == [kind |-> "number", value |-> n]

\* Math.round(100 * num / den) for den > 0: halves go up
roundSignedPercent(num, den) == (200 * num + den) \div (2 * den)

\* Math.round(compressionRatio * 100)
roundedCompression(summaryWordCount, originalWordCount) ==
    IF originalWordCount = 0
    THEN IF summaryWordCount = 0 THEN NaN ELSE NegativeInfinity
    ELSE Number(roundSignedPercent(originalWordCount - summaryWordCount, originalWordCount))

\* compressionRatio > 0.9 (false of NaN and of -Infinity)
overCompressed(summaryWordCount, originalWordCount) ==
    /\ originalWordCount > 0
    /\ 10 * (originalWordCount - summaryWordCount) > 9 * originalWordCount

\* compressionRatio < 0.3 (false of NaN, true of -Infinity)
underCompressed(summaryWordCount, originalWordCount) ==
    IF originalWordCount = 0 THEN summaryWordCount > 0
    ELSE 10 * (originalWordCount - summaryWordCount) < 3 * originalWordCount

issue(message) == [message |-> message, terms |-> <<>>]

runCritiqueAgent(processed, reasoningResult) ==
    LET summary == reasoningResult.summary
        original == processed.normalized
        summaryWordCount == countWords(summary)
        originalWordCount == countWords(original)
        importantTerms == extractImportantTerms(original)
        lowerSummary == toLowerCase(summary)
        missedTerms == SelectSeq(importantTerms, LAMBDA term : ~includes(lowerSummary, toLowerCase(term)))
        issues ==
            (IF overCompressed(summaryWordCount, originalWordCount)
             THEN <<issue("Summary may be over-compressed")>> ELSE <<>>)
            \o (IF underCompressed(summaryWordCount, originalWordCount)
                THEN <<issue("Summary could be more concise")>> ELSE <<>>)
            \o (IF Len(missedTerms) > 3
                THEN <<[message |-> "May be missing: ", terms |-> SubSeq(missedTerms, 1, 3)]>>
                ELSE <<>>)
    IN  [ issues |-> issues,
          compressionRatio |-> roundedCompression(summaryWordCount, originalWordCount),
          quality |-> IF Len(issues) = 0 THEN "Good"
                      ELSE IF Len(issues) < 2 THEN "Fair"
                      ELSE "Needs improvement" ]

(***************************************************************************)
(* Output refiner.                                                         *)
(***************************************************************************)
\* the punctuation of /\s+([.,!?])/
SpacedPunctuation == {".", ",", "!", "?"}

\* s.replace(/\s+([.,!?])/g, '$1'): a whitespace run is removed when the
\* character that ends it is one of . , ! ?
removeSpaceBeforePunctuation(s) ==
    LET starts == whitespaceRunStarts(s)
        ends == whitespaceRunEnds(s)
        removed == UNION {starts[k]..ends[k] :
                            k \in {r \in 1..Len(starts) :
                                     ends[r] < Len(s) /\ s[ends[r] + 1] \in SpacedPunctuation}}
    IN  keepWhere(s, [i \in 1..Len(s) |-> i \notin removed])

cleanUp(s) == trim(removeSpaceBeforePunctuation(collapseWhitespace(s)))

capitalize(s) == toUpperCase(charAt(s, 0)) \o slice(s, 1)

ensureTerminated(s) ==
    IF ~endsWith(s, ".") /\ ~endsWith(s, "!") /\ ~endsWith(s, "?") THEN Append(s, ".") ELSE s

\* the base text gated by the critique's verdict as well
selectBaseUnlessCritiqued(reasoning, verification, simplification, critique) ==
    IF verification.verified /\ critique.quality = "Good"
    THEN simplification.summary
    ELSE reasoning.summary

selectBase(reasoning, verification, simplification, critique) ==
    IF verification.verified THEN simplification.summary ELSE reasoning.summary

refineSummary(reasoning, verification, simplification, critique) ==
    ensureTerminated(capitalize(cleanUp(
        selectBase(reasoning, verification, simplification, critique))))

(***************************************************************************)
(* The page: what the user can put in the textarea, the summarize handler  *)
(* with the backend call and the local fallback, and the display.          *)
(*                                                                         *)
(* handleSummarize is an async function: between two awaits it runs        *)
(* without interruption, so every action below is the code from one await  *)
(* (or the click) to the next await (or the return).  reqs holds one       *)
(* record per invocation that passed the gates; pc names the await the     *)
(* invocation is suspended at:                                             *)
(*   "fetch"     await fetch(...)                 line 155                 *)
(*   "json"      await response.json()            line 170                 *)
(*   "delay500"  await delay(500)                 line 178                 *)
(*   "delay200"  await delay(200)                 line 185                 *)
(*   "delay150"  await delay(150)                 line 188                 *)
(*   "delay150b" await delay(150)                 line 191                 *)
(*   "delay100"  await delay(100)                 line 194                 *)
(*   "done"      handleSummarize has returned                              *)
(* A returned invocation is dropped from reqs when the next one starts.    *)
(* displayed (what displayResults wrote to #outputContent for the          *)
(* invocation) and localRuns (the calls of processLocally) are history.    *)
(***************************************************************************)
NoCall == [fn |-> "none"]

NoResult == [fn |-> "none"]

\* the text.length < 100 of the gate
MinInputLength == 100

\* the invocations of handleSummarize that may be suspended at once
MaxRequests == 2

None == [kind |-> "none"]

Undefined == [kind |-> "undefined"]

String(text) == [kind |-> "string", text |-> text]

\* n copies of the character c
repeat(c, n) == [i \in 1..n |-> c]

\* a blank, 99 letters and a blank: 101 characters, 99 when trimmed
ShortText == <<" ">> \o repeat("b", MinInputLength - 1) \o <<" ">>

\* "http://" and 93 letters: 100 characters, none left by the input processor
UrlOnlyText == HttpScheme \o repeat("a", MinInputLength - Len(HttpScheme))

\* "PolyAI is a significant tool. Visit https://poly.ai/docs now. It runs four
\* agents. Cats sleep a lot today. The key result is short." (131 characters)
ArticleText ==
    <<"P","o","l","y","A","I"," ","i","s"," ","a"," ","s","i","g","n","i","f","i","c",
      "a","n","t"," ","t","o","o","l","."," ","V","i","s","i","t"," ","h","t","t","p",
      "s",":","/","/","p","o","l","y",".","a","i","/","d","o","c","s"," ","n","o","w",
      "."," ","I","t"," ","r","u","n","s"," ","f","o","u","r"," ","a","g","e","n","t",
      "s","."," ","C","a","t","s"," ","s","l","e","e","p"," ","a"," ","l","o","t"," ",
      "t","o","d","a","y","."," ","T","h","e"," ","k","e","y"," ","r","e","s","u","l",
      "t"," ","i","s"," ","s","h","o","r","t",".">>

\* what the user types or pastes
Texts == {<<>>, ShortText, UrlOnlyText, ArticleText}

\* "Backend summary."
BackendSummary ==
    <<"B","a","c","k","e","n","d"," ","s","u","m","m","a","r","y",".">>

\* the bodies a 200 response of POST /summarize is modelled to carry: the
\* documented one and one without a summary
BackendPayloads ==
    { [summary |-> String(BackendSummary)],
      [summary |-> Undefined] }

newRequest(text) ==
    [ text |-> text,
      pc |-> "fetch",
      backend |-> "pending",
      localRuns |-> 0,
      have |-> {},
      processed |-> None,
      reasoning |-> None,
      verification |-> None,
      simplification |-> None,
      critique |-> None,
      finalSummary |-> None,
      displayed |-> <<>> ]

inFlight(r) == r.pc # "done"

\* setProcessingState(isProcessing): the button state follows the flag
setProcessingState(value) == isProcessing' = value

\* the 'input' event of the textarea (updateCharCount only reads)
editInput ==
    /\ \E text \in Texts : inputText' = text
    /\ UNCHANGED <<isProcessing, debugMode, reqs, output, toast, args, result>>

handleClear ==
    /\ inputText' = <<>>
    /\ UNCHANGED <<isProcessing, debugMode, reqs, output, toast, args, result>>

\* the continuation of handlePaste after await navigator.clipboard.readText()
handlePaste ==
    /\ \/ \E text \in Texts :
             /\ inputText' = text
             /\ toast' = "Text pasted successfully"
       \/ /\ toast' = "Unable to paste from clipboard"
          /\ UNCHANGED inputText
    /\ UNCHANGED <<isProcessing, debugMode, reqs, output, args, result>>

\* handleCopy, to the toast it ends with: #outputContent holds text once a
\* result was displayed; what it holds before is the page's markup
handleCopy ==
    /\ \/ /\ ~output.shown
          /\ toast' = "No summary to copy"
       \/ toast' \in {"Summary copied to clipboard", "Failed to copy"}
    /\ UNCHANGED <<inputText, isProcessing, debugMode, reqs, output, args, result>>

\* the timers of showToast remove the toast
toastExpires ==
    /\ toast # ""
    /\ toast' = ""
    /\ UNCHANGED <<inputText, isProcessing, debugMode, reqs, output, args, result>>

toggleDebugMode ==
    /\ debugMode' = ~debugMode
    /\ UNCHANGED <<inputText, isProcessing, reqs, output, toast, args, result>>

\* the gates read the raw value of the textarea
enteredTextUntrimmed == inputText

\* const text = inputText.value.trim()
enteredText == trim(inputText)

\* the handler without if (state.isProcessing) return
handleSummarizeUnguarded ==
    LET text == enteredText
    IN  /\ IF Len(text) = 0
           THEN /\ toast' = "Please enter some text to summarize"
                /\ UNCHANGED <<isProcessing, reqs>>
           ELSE IF Len(text) < MinInputLength
           THEN /\ toast' = "Please enter at least 100 characters"
                /\ UNCHANGED <<isProcessing, reqs>>
           ELSE /\ Len(SelectSeq(reqs, inFlight)) < MaxRequests
                /\ setProcessingState(TRUE)
                /\ reqs' = Append(SelectSeq(reqs, inFlight), newRequest(text))
                /\ UNCHANGED toast
        /\ UNCHANGED <<inputText, debugMode, output, args, result>>

\* the click on #summarizeBtn, up to the await of fetch
handleSummarize ==
    LET text == enteredText
    IN  /\ IF Len(text) = 0
           THEN /\ toast' = "Please enter some text to summarize"
                /\ UNCHANGED <<isProcessing, reqs>>
           ELSE IF Len(text) < MinInputLength
           THEN /\ toast' = "Please enter at least 100 characters"
                /\ UNCHANGED <<isProcessing, reqs>>
           ELSE IF isProcessing
           THEN UNCHANGED <<isProcessing, reqs, toast>>
           ELSE /\ Len(SelectSeq(reqs, inFlight)) < MaxRequests
                /\ setProcessingState(TRUE)
                /\ reqs' = Append(SelectSeq(reqs, inFlight), newRequest(text))
                /\ UNCHANGED toast
        /\ UNCHANGED <<inputText, debugMode, output, args, result>>

\* processLocally(text) up to its first await, started by the catch block;
\* outcome tells whether callBackendAPI had returned ("ok") or thrown ("failed")
startLocally(r, outcome) ==
    [r EXCEPT !.pc = "delay500", !.backend = outcome, !.localRuns = r.localRuns + 1]

\* fetch rejects: callBackendAPI throws, the catch block starts processLocally
fetchRejects(k) ==
    /\ reqs[k].pc = "fetch"
    /\ reqs' = [reqs EXCEPT ![k] = startLocally(reqs[k], "failed")]
    /\ UNCHANGED <<inputText, isProcessing, debugMode, output, toast, args, result>>

\* the response arrives; !response.ok throws, otherwise response.json() is awaited
fetchResolves(k) ==
    /\ reqs[k].pc = "fetch"
    /\ \/ reqs' = [reqs EXCEPT ![k] = startLocally(reqs[k], "failed")]
       \/ reqs' = [reqs EXCEPT ![k].pc = "json"]
    /\ UNCHANGED <<inputText, isProcessing, debugMode, output, toast, args, result>>

\* response.json() rejects: the body is no JSON
jsonRejects(k) ==
    /\ reqs[k].pc = "json"
    /\ reqs' = [reqs EXCEPT ![k] = startLocally(reqs[k], "failed")]
    /\ UNCHANGED <<inputText, isProcessing, debugMode, output, toast, args, result>>

\* compression of displayResults: Math.round((1 - countWords(summary) /
\* countWords(originalText)) * 100)
displayedCompression(summary, originalText) ==
    roundedCompression(countWords(summary), countWords(originalText))

\* #outputContent and the stats bar after displayResults(result, originalText)
\* ran to its end (the debug panel, rewritten when debugMode and
\* result.agents hold, is not part of the state)
displayResults(summary, source, originalText) ==
    [ shown |-> TRUE,
      summary |-> String(summary),
      source |-> source,
      originalWords |-> Number(countWords(originalText)),
      summaryWords |-> Number(countWords(summary)),
      compression |-> displayedCompression(summary, originalText) ]

\* displayResults of a result without summary: innerHTML and originalWords
\* are written, then countWords(undefined) throws
displayResultsThrowing(source, originalText) ==
    [ output EXCEPT !.shown = TRUE,
                    !.summary = Undefined,
                    !.source = source,
                    !.originalWords = Number(countWords(originalText)) ]

\* displayResults outside the try block: when it throws, handleSummarize
\* rejects and setProcessingState(false) is not reached
jsonResolvesUncaught(k) ==
    /\ reqs[k].pc = "json"
    /\ \E payload \in BackendPayloads :
          IF payload.summary.kind = "string"
          THEN /\ output' = displayResults(payload.summary.text, "backend", reqs[k].text)
               /\ reqs' = [reqs EXCEPT ![k].pc = "done",
                                       ![k].backend = "ok",
                                       ![k].displayed = Append(@, [source |-> "backend",
                                                                   summary |-> payload.summary])]
               /\ setProcessingState(FALSE)
          ELSE /\ output' = displayResultsThrowing("backend", reqs[k].text)
               /\ reqs' = [reqs EXCEPT ![k].pc = "done",
                                       ![k].backend = "ok",
                                       ![k].displayed = Append(@, [source |-> "backend",
                                                                   summary |-> payload.summary])]
               /\ UNCHANGED isProcessing
    /\ UNCHANGED <<inputText, debugMode, toast, args, result>>

\* response.json() resolves: callBackendAPI returns, displayResults runs in
\* the try block; when it throws the catch block starts processLocally
jsonResolves(k) ==
    /\ reqs[k].pc = "json"
    /\ \E payload \in BackendPayloads :
          IF payload.summary.kind = "string"
          THEN /\ output' = displayResults(payload.summary.text, "backend", reqs[k].text)
               /\ reqs' = [reqs EXCEPT ![k].pc = "done",
                                       ![k].backend = "ok",
                                       ![k].displayed = Append(@, [source |-> "backend",
                                                                   summary |-> payload.summary])]
               /\ setProcessingState(FALSE)
          ELSE /\ output' = displayResultsThrowing("backend", reqs[k].text)
               /\ reqs' = [reqs EXCEPT ![k] =
                             [startLocally(@, "ok") EXCEPT
                                 !.displayed = Append(@, [source |-> "backend",
                                                          summary |-> payload.summary])]]
               /\ UNCHANGED isProcessing
    /\ UNCHANGED <<inputText, debugMode, toast, args, result>>

\* processLocally after delay(500): the input processor and the reasoning agent
afterDelay500(k) ==
    /\ reqs[k].pc = "delay500"
    /\ LET processed == processInput(reqs[k].text)
       IN  reqs' = [reqs EXCEPT ![k].pc = "delay200",
                                ![k].processed = processed,
                                ![k].reasoning = runReasoningAgent(processed),
                                ![k].have = @ \cup {"reasoning"}]
    /\ UNCHANGED <<inputText, isProcessing, debugMode, output, toast, args, result>>

afterDelay200(k) ==
    /\ reqs[k].pc = "delay200"
    /\ reqs' = [reqs EXCEPT ![k].pc = "delay150",
                            ![k].verification = runVerificationAgent(reqs[k].processed, reqs[k].reasoning),
                            ![k].have = @ \cup {"verification"}]
    /\ UNCHANGED <<inputText, isProcessing, debugMode, output, toast, args, result>>

\* the simplification agent is skipped for a verified summary
afterDelay150ReadingVerification(k) ==
    /\ reqs[k].pc = "delay150"
    /\ reqs' = [reqs EXCEPT ![k].pc = "delay150b",
                            ![k].simplification =
                                IF reqs[k].verification.verified
                                THEN [summary |-> reqs[k].reasoning.summary, readabilityImproved |-> FALSE]
                                ELSE runSimplificationAgent(reqs[k].processed, reqs[k].reasoning),
                            ![k].have = @ \cup {"simplification"}]
    /\ UNCHANGED <<inputText, isProcessing, debugMode, output, toast, args, result>>

afterDelay150(k) ==
    /\ reqs[k].pc = "delay150"
    /\ reqs' = [reqs EXCEPT ![k].pc = "delay150b",
                            ![k].simplification = runSimplificationAgent(reqs[k].processed, reqs[k].reasoning),
                            ![k].have = @ \cup {"simplification"}]
    /\ UNCHANGED <<inputText, isProcessing, debugMode, output, toast, args, result>>

afterDelay150b(k) ==
    /\ reqs[k].pc = "delay150b"
    /\ reqs' = [reqs EXCEPT ![k].pc = "delay100",
                            ![k].critique = runCritiqueAgent(reqs[k].processed, reqs[k].reasoning),
                            ![k].have = @ \cup {"critique"}]
    /\ UNCHANGED <<inputText, isProcessing, debugMode, output, toast, args, result>>

\* processLocally after delay(100): the refiner; then, back in the catch
\* block, displayResults and setProcessingState(false)
afterDelay100(k) ==
    /\ reqs[k].pc = "delay100"
    /\ LET finalSummary == refineSummary(reqs[k].reasoning, reqs[k].verification,
                                         reqs[k].simplification, reqs[k].critique)
       IN  /\ output' = displayResults(finalSummary, "local", reqs[k].text)
           /\ reqs' = [reqs EXCEPT ![k].pc = "done",
                                   ![k].finalSummary = String(finalSummary),
                                   ![k].have = @ \cup {"refiner"},
                                   ![k].displayed = Append(@, [source |-> "local",
                                                               summary |-> String(finalSummary)])]
    /\ setProcessingState(FALSE)
    /\ UNCHANGED <<inputText, debugMode, toast, args, result>>

Init ==
    /\ inputText = <<>>
    /\ isProcessing = FALSE
    /\ debugMode = FALSE
    /\ reqs = <<>>
    /\ output = [shown |-> FALSE, summary |-> None, source |-> "none", originalWords |-> None,
                 summaryWords |-> None, compression |-> None]
    /\ toast = ""
    /\ args = NoCall
    /\ result = NoResult

Next ==
    \/ editInput
    \/ handleClear
    \/ handlePaste
    \/ handleCopy
    \/ toastExpires
    \/ toggleDebugMode
    \/ handleSummarize
    \/ \E k \in 1..Len(reqs) : fetchRejects(k)
    \/ \E k \in 1..Len(reqs) : fetchResolves(k)
    \/ \E k \in 1..Len(reqs) : jsonRejects(k)
    \/ \E k \in 1..Len(reqs) : jsonResolves(k)
    \/ \E k \in 1..Len(reqs) : afterDelay500(k)
    \/ \E k \in 1..Len(reqs) : afterDelay200(k)
    \/ \E k \in 1..Len(reqs) : afterDelay150(k)
    \/ \E k \in 1..Len(reqs) : afterDelay150b(k)
    \/ \E k \in 1..Len(reqs) : afterDelay100(k)

Spec == Init /\ [][Next]_vars

\* the promise of fetch settles
fetchSettles == \E k \in 1..Len(reqs) : fetchRejects(k) \/ fetchResolves(k)

\* the promise of response.json() settles
jsonSettles == \E k \in 1..Len(reqs) : jsonRejects(k) \/ jsonResolves(k)

\* the setTimeout of delay(ms) fires and the promise resolves
delayResolves ==
    \E k \in 1..Len(reqs) :
        \/ afterDelay500(k)
        \/ afterDelay200(k)
        \/ afterDelay150(k)
        \/ afterDelay150b(k)
        \/ afterDelay100(k)

\* a request is suspended at a delay: delayResolves is enabled exactly then
delayPending ==
    \E k \in 1..Len(reqs) :
        reqs[k].pc \in {"delay500", "delay200", "delay150", "delay150b", "delay100"}

\* the page with an event loop that runs every continuation that is due;
\* the user is under no obligation.  The last conjunct is
\* WF_vars(delayResolves) with ENABLED <<delayResolves>>_vars written as the
\* state predicate it equals, delayPending.
FairSpec ==
    /\ Spec
    /\ WF_vars(fetchSettles)
    /\ WF_vars(jsonSettles)
    /\ ([]<>~delayPending \/ []<><<delayResolves>>_vars)

(***************************************************************************)
(* Direct calls of the pipeline's pure functions: args holds the arguments *)
(* of one call, result what it returned.                                   *)
(***************************************************************************)
\* every string of at most n characters of the alphabet
StringsUpTo(alphabet, n) == UNION {[1..k -> alphabet] : k \in 0..n}

\* the page as loaded, for the specifications of the direct calls
InitUI ==
    /\ inputText = <<>>
    /\ isProcessing = FALSE
    /\ debugMode = FALSE
    /\ reqs = <<>>
    /\ output = [shown |-> FALSE, summary |-> None, source |-> "none", originalWords |-> None,
                 summaryWords |-> None, compression |-> None]
    /\ toast = ""

\* ---- refineSummary called on every combination of small agent results
MaxRefineLen == 3

RefineAlphabet == {" ", "\n", "a", ".", ",", "!", "?"}

RefineTexts == StringsUpTo(RefineAlphabet, MaxRefineLen)

SimplifiedTexts == {<<>>} \cup {<<c>> : c \in RefineAlphabet}

CritiqueSamples ==
    { [issues |-> <<>>, compressionRatio |-> Number(50), quality |-> "Good"],
      [issues |-> <<issue("Summary could be more concise"),
                    [message |-> "May be missing: ", terms |-> <<<<"a">>, <<"a">>, <<"a">>>>]>>,
       compressionRatio |-> Number(0),
       quality |-> "Needs improvement"] }

RefineArgs ==
    [ fn : {"refineSummary"},
      reasoning : [summary : RefineTexts],
      verification : [verified : BOOLEAN],
      simplification : [summary : SimplifiedTexts],
      critique : CritiqueSamples ]

InitRefine == InitUI /\ args \in RefineArgs /\ result = NoResult

applyRefineSummary ==
    /\ args.fn = "refineSummary"
    /\ result = NoResult
    /\ result' = [fn |-> "refineSummary",
                  value |-> refineSummary(args.reasoning, args.verification,
                                          args.simplification, args.critique)]
    /\ UNCHANGED <<args, uiVars>>

NextRefine == applyRefineSummary

SpecRefine == InitRefine /\ [][NextRefine]_vars

\* ---- runReasoningAgent called on every document of at most MaxSentences
\* sentences of the pool
MaxSentences == 11

\* "Cats sleep a lot."
PlainSentence ==
    <<"C","a","t","s"," ","s","l","e","e","p"," ","a"," ","l","o","t",".">>

\* "Key a b c d e f g h i." (an indicator, and ten words)
KeySentence ==
    <<"K","e","y"," ","a"," ","b"," ","c"," ","d"," ","e"," ","f"," ","g"," ","h"," ",
      "i",".">>

SentencePool == {PlainSentence, KeySentence}

ReasonArgs ==
    [ fn : {"runReasoningAgent"},
      processed : [sentences : StringsUpTo(SentencePool, MaxSentences)] ]

InitReason == InitUI /\ args \in ReasonArgs /\ result = NoResult

\* result.selected keeps the items behind the returned summary
applyRunReasoningAgent ==
    /\ args.fn = "runReasoningAgent"
    /\ result = NoResult
    /\ LET top == topItems(args.processed.sentences)
       IN  result' = [fn |-> "runReasoningAgent",
                      value |-> reasoningResultOf(top),
                      selected |-> top]
    /\ UNCHANGED <<args, uiVars>>

NextReason == applyRunReasoningAgent

SpecReason == InitReason /\ [][NextReason]_vars

\* ---- runVerificationAgent called on summaries of at most MaxSummaryWords
\* words of the vocabulary, after an optional short word
MaxSummaryWords == 10

\* "Alphabet soup."
VerifySource ==
    <<"A","l","p","h","a","b","e","t"," ","s","o","u","p",".">>

\* "Alpha" (inside the source's "alphabet") and "omega," (not in the source)
VerifyVocabulary ==
    { <<"A","l","p","h","a">>, <<"o","m","e","g","a",",">> }

\* nothing, or "The "
VerifyPrefixes == { <<>>, <<"T","h","e"," ">> }

VerifySummaries ==
    { prefix \o join(words) :
        prefix \in VerifyPrefixes, words \in StringsUpTo(VerifyVocabulary, MaxSummaryWords) }

VerifyArgs ==
    [ fn : {"runVerificationAgent"},
      processed : [normalized : {VerifySource}],
      reasoningResult : [summary : VerifySummaries] ]

InitVerify == InitUI /\ args \in VerifyArgs /\ result = NoResult

applyRunVerificationAgent ==
    /\ args.fn = "runVerificationAgent"
    /\ result = NoResult
    /\ result' = [fn |-> "runVerificationAgent",
                  value |-> runVerificationAgent(args.processed, args.reasoningResult)]
    /\ UNCHANGED <<args, uiVars>>

NextVerify == applyRunVerificationAgent

SpecVerify == InitVerify /\ [][NextVerify]_vars

(***************************************************************************)
(* Properties of the pure functions.                                       *)
(***************************************************************************)
\* the base text refineSummary was called on
calledBase ==
    IF args.verification.verified THEN args.simplification.summary ELSE args.reasoning.summary

\* C1: refineSummary returns a string ending in . ! or ? for a non-empty base
\* text, and returns the empty string for an empty base text.
C1_RefinerTerminalPunctuation ==
    result.fn = "refineSummary" =>
        /\ Len(calledBase) > 0 =>
              /\ Len(result.value) > 0
              /\ result.value[Len(result.value)] \in {".", "!", "?"}
        /\ Len(calledBase) = 0 => Len(result.value) = 0

\* the words of the summary longer than four characters, as positions
claimedSignificant ==
    LET words == splitWhitespace(toLowerCase(args.reasoningResult.summary))
    IN  {i \in 1..Len(words) : Len(words[i]) > 4}

claimedMatched ==
    LET words == splitWhitespace(toLowerCase(args.reasoningResult.summary))
    IN  {i \in claimedSignificant : includes(toLowerCase(args.processed.normalized), words[i])}

\* raw coverage > 0.7, coverage being 0 without significant words
claimedAboveThreshold ==
    /\ claimedSignificant # {}
    /\ 10 * Cardinality(claimedMatched) > 7 * Cardinality(claimedSignificant)

\* C2: runVerificationAgent reports coverage as an integer in [0,100] and
\* verified is true exactly when the raw coverage fraction exceeds 0.7.
C2_VerifiedIffAboveThreshold ==
    result.fn = "runVerificationAgent" =>
        /\ result.value.coverage \in 0..100
        /\ result.value.verified <=> claimedAboveThreshold

\* a call whose raw coverage is exactly 7/10
C2_Witness ==
    /\ result.fn = "runVerificationAgent"
    /\ Cardinality(claimedSignificant) = 10
    /\ Cardinality(claimedMatched) = 7
    /\ ~result.value.verified
    /\ result.value.coverage = 70

\* C3: issues holds the message exactly when raw coverage <= 0.7 and is empty
\* otherwise, so exactly one of verified and a non-empty issues holds.
C3_IssuesIffNotAboveThreshold ==
    result.fn = "runVerificationAgent" =>
        /\ result.value.issues =
              IF claimedAboveThreshold THEN <<>>
              ELSE <<"Some claims may not be directly from source">>
        /\ result.value.verified <=> (Len(result.value.issues) = 0)

\* the least c with c >= 3n/10
ceilThreeTenths(n) == CHOOSE c \in 0..n : 10 * c >= 3 * n /\ 10 * (c - 1) < 3 * n

\* C4: of N > 0 sentences runReasoningAgent selects min(N, max(3, ceil(0.3 N)))
\* and reports that count as keyPoints; of none, an empty summary and 0.
C4_SelectionCount ==
    result.fn = "runReasoningAgent" =>
        LET n == Len(args.processed.sentences)
            expected == Min(n, Max(3, ceilThreeTenths(n)))
        IN  IF n > 0
            THEN Len(result.selected) = expected /\ result.value.keyPoints = expected
            ELSE Len(result.value.summary) = 0 /\ result.value.keyPoints = 0

\* a document long enough for ceil(0.3 N) to exceed 3
C4_Witness ==
    /\ result.fn = "runReasoningAgent"
    /\ Len(args.processed.sentences) = 11
    /\ result.value.keyPoints = 4

\* C5: the selected sentences appear in strictly increasing document index,
\* each is the document's sentence at its index, and the summary joins them.
C5_DocumentOrder ==
    result.fn = "runReasoningAgent" =>
        /\ \A i, j \in 1..Len(result.selected) :
              i < j => result.selected[i].index < result.selected[j].index
        /\ \A i \in 1..Len(result.selected) :
              /\ result.selected[i].index + 1 \in 1..Len(args.processed.sentences)
              /\ result.selected[i].sentence =
                    args.processed.sentences[result.selected[i].index + 1]
        /\ result.value.summary =
              join([i \in 1..Len(result.selected) |-> result.selected[i].sentence])

\* a selection in which a later sentence outscored an earlier one
C5_Witness ==
    /\ result.fn = "runReasoningAgent"
    /\ \E i, j \in 1..Len(result.selected) :
          i < j /\ result.selected[i].score < result.selected[j].score

polish(s) == ensureTerminated(capitalize(cleanUp(s)))

\* C7: refineSummary works on the simplification summary exactly when
\* verification.verified, otherwise on the reasoning summary, and returns the
\* same text whatever the critique result is.
C7_BaseByVerificationOnly ==
    result.fn = "refineSummary" =>
        /\ args.verification.verified => result.value = polish(args.simplification.summary)
        /\ ~args.verification.verified => result.value = polish(args.reasoning.summary)
        /\ \A critique \in CritiqueSamples :
              refineSummary(args.reasoning, args.verification, args.simplification, critique)
                 = result.value

\* a verified call with a critique that found issues, whose two candidate
\* texts refine differently
C7_Witness ==
    /\ result.fn = "refineSummary"
    /\ args.verification.verified
    /\ args.critique.quality = "Needs improvement"
    /\ polish(args.simplification.summary) # polish(args.reasoning.summary)
    /\ result.value = polish(args.simplification.summary)

\* ---- the page ----

\* C6: when the normalized source has no words, the compression ratio the
\* critique agent reports is the integer 0, not NaN.
C6_CompressionOfEmptySource ==
    \A k \in 1..Len(reqs) :
        ("critique" \in reqs[k].have /\ reqs[k].processed.wordCount = 0)
            => reqs[k].critique.compressionRatio = Number(0)

\* the characters of s from its first to its last non-blank one
strippedLength(s) ==
    LET solid(i) == s[i] \notin Whitespace
    IN  IF \A i \in 1..Len(s) : ~solid(i) THEN 0
        ELSE (CHOOSE i \in 1..Len(s) : solid(i) /\ \A j \in (i + 1)..Len(s) : ~solid(j))
             - (CHOOSE i \in 1..Len(s) : solid(i) /\ \A j \in 1..(i - 1) : ~solid(j)) + 1

shortOfHundred(s) == strippedLength(s) < 100

\* C8: a click on Summarize while the trimmed text has fewer than 100
\* characters starts no backend request and no local pipeline, and leaves
\* isProcessing and the displayed result as they were; so every request in
\* progress carries at least 100 characters.
C8_ShortTextStartsNothing ==
    /\ [](\A k \in 1..Len(reqs) : ~shortOfHundred(reqs[k].text))
    /\ [][(shortOfHundred(inputText) /\ handleSummarize)
              => UNCHANGED <<isProcessing, output, reqs>>]_vars

\* the click on a short text was answered with the toast, while idle
C8_Witness ==
    /\ toast = "Please enter at least 100 characters"
    /\ inputText = ShortText
    /\ ~isProcessing
    /\ reqs = <<>>

Agents == {"reasoning", "verification", "simplification", "critique"}

\* C9: the Refiner runs only once all four agents have produced their
\* results, and what Verification, Simplification and Critique produced is
\* determined by the normalized document and the Reasoning result alone, so
\* the final summary is the one any order of the three agents gives.
C9_RefinerAfterAgents ==
    \A k \in 1..Len(reqs) :
        LET r == reqs[k]
        IN  /\ ("refiner" \in r.have \/ r.pc = "delay100") => Agents \subseteq r.have
            /\ ("verification" \in r.have) = (r.verification # None)
            /\ ("simplification" \in r.have) = (r.simplification # None)
            /\ ("critique" \in r.have) = (r.critique # None)
            /\ r.pc = "delay100" =>
                  /\ r.processed = processInput(r.text)
                  /\ r.verification = runVerificationAgent(r.processed, r.reasoning)
                  /\ r.simplification = runSimplificationAgent(r.processed, r.reasoning)
                  /\ r.critique = runCritiqueAgent(r.processed, r.reasoning)
            /\ "refiner" \in r.have =>
                  r.finalSummary =
                     String(refineSummary(r.reasoning,
                                          runVerificationAgent(r.processed, r.reasoning),
                                          runSimplificationAgent(r.processed, r.reasoning),
                                          runCritiqueAgent(r.processed, r.reasoning)))

\* the Refiner has run on the article, whose simplification differs from
\* the reasoning summary
C9_Witness ==
    \E k \in 1..Len(reqs) :
        /\ reqs[k].pc = "done"
        /\ "refiner" \in reqs[k].have
        /\ reqs[k].text = ArticleText
        /\ reqs[k].simplification.summary # reqs[k].reasoning.summary

\* C10: of a finished request exactly one result was displayed: after a
\* failed backend call the local pipeline ran once and its summary was
\* displayed; after a successful one the backend's summary was displayed
\* and the local pipeline did not run.
C10_ExactlyOneResultDisplayed ==
    \A k \in 1..Len(reqs) :
        LET r == reqs[k]
        IN  r.pc = "done" =>
               /\ Len(r.displayed) = 1
               /\ IF r.backend = "ok"
                  THEN r.localRuns = 0 /\ r.displayed[1].source = "backend"
                  ELSE /\ r.localRuns = 1
                       /\ r.displayed[1] = [source |-> "local", summary |-> r.finalSummary]

\* the requests whose handleSummarize has not returned
inFlightCount == Len(SelectSeq(reqs, inFlight))

\* C11: at most one summarization request is in flight at a time,
\* isProcessing is true throughout every request in flight, and a click
\* while isProcessing is true starts neither a backend call nor a local
\* pipeline run.
C11_OneRequestInFlight ==
    /\ [](inFlightCount <= 1 /\ (inFlightCount > 0 => isProcessing))
    /\ [][(isProcessing /\ handleSummarize) => UNCHANGED <<isProcessing, output, reqs>>]_vars

\* a request is suspended in the local pipeline while the textarea holds
\* another text the gates accept
C11_Witness ==
    /\ isProcessing
    /\ inFlightCount = 1
    /\ \E k \in 1..Len(reqs) :
          /\ reqs[k].pc = "delay200"
          /\ reqs[k].text # trim(inputText)
    /\ ~shortOfHundred(inputText)

\* C12: every accepted request that set isProcessing to true sets it back to
\* false, on every path (backend success, backend failure and local fallback,
\* a failure raised while displaying the result): isProcessing does not stay
\* true for ever, and it is false whenever no request is in flight.
C12_ProcessingEnds ==
    /\ [](inFlightCount = 0 => ~isProcessing)
    /\ isProcessing ~> ~isProcessing

\* a request returned after displayResults threw on the backend's result and
\* the local fallback ran
C12_Witness ==
    /\ ~isProcessing
    /\ \E k \in 1..Len(reqs) :
          /\ reqs[k].pc = "done"
          /\ reqs[k].backend = "ok"
          /\ reqs[k].localRuns = 1
          /\ Len(reqs[k].displayed) = 2

====
